---- MODULE Spec2Model ----
(***************************************************************************)
(* Model of the SmokePing RRD-to-JSON API (src/api/smokeping_api.py):      *)
(* the rrdtool "lastupdate" parser parse_rrd_lastupdate and the reader     *)
(* get_target_data around it.                                              *)
(*                                                                         *)
(* Representation of text.  A string is held by the structure the code     *)
(* takes it apart by:                                                      *)
(*   text    = sequence of lines            (split on "\n")                *)
(*   line    = non-empty sequence of parts  (split on ":", so a line with  *)
(*             k colons has k+1 parts)                                     *)
(*   part    = sequence of tokens           (split on whitespace)          *)
(*   token   = a string without whitespace or colon                        *)
(* A blank line is the line whose only part has no token.                  *)
(*                                                                         *)
(* Representation of numbers.  Python floats are held in fixed point:      *)
(*   a value returned by float()   in units of 1e-7 (Tick)                 *)
(*   latency_ms                    in hundredths of a millisecond          *)
(*   loss_pct                      in tenths of a percent                  *)
(* round(x, n) is round-half-to-even on the exact value; the literals of   *)
(* the model are chosen so that no binary-representation error decides a   *)
(* rounding.  A Python value is a record [k, n]: k is "None", "num" or     *)
(* "inf" and n the fixed-point number.                                     *)
(***************************************************************************)
EXTENDS Integers, Sequences, FiniteSets, TLC

VARIABLES
    TOTAL_PINGS,         \* configuration: pings per probe cycle (module global)
    SMOKEPING_DATA_DIR,  \* configuration: the data root (module global)
    rrd_path,            \* argument of get_target_data
    tool,                \* what subprocess.run did in the current call
    tool_arg,            \* the path handed to rrdtool, <<"-">> before any run
    runs,                \* number of subprocess.run calls made so far
    output,              \* the text handed to parse_rrd_lastupdate
    parsed,              \* what parse_rrd_lastupdate returned (or raised)
    frame,               \* its locals latency_ms and loss_pct when it ended
    sample,              \* what get_target_data returned
    pc,                  \* position of the current call
    clock,               \* seconds since subprocess.run was entered
    TARGETS,             \* configuration: the target map (module global)
    request,             \* the request do_GET or do_OPTIONS is handling
    todo,                \* targets the loop of do_GET has still to fetch
    fetched,             \* targets get_target_data was called for, in order
    results,             \* the Samples do_GET collected, in order
    response,            \* the status and body sent
    served,              \* number of requests answered so far
    environ              \* SMOKEPING_API_TOTAL_PINGS in the environment

vars == <<TOTAL_PINGS, SMOKEPING_DATA_DIR, rrd_path, tool, tool_arg, runs,
          output, parsed, frame, sample, pc, clock, TARGETS, request, todo,
          fetched, results, response, served, environ>>

\* The state of the request handler.
handler == <<TARGETS, request, todo, fetched, results, response, served>>

-----------------------------------------------------------------------------
(* Python values *)

None == [k |-> "None", n |-> 0]
Num(x) == [k |-> "num", n |-> x]
Inf == [k |-> "inf", n |-> 0]

\* Units of the fixed-point representation of float() results: 1e-7.
Tick == 10000000

\* float(v) for the literals of the model; every other token raises ValueError.
\* "nan" parses to a NaN, "inf" to +infinity.
FloatLiteral ==
    ( "0"          :> [k |-> "num", n |-> 0]
   @@ "5"          :> [k |-> "num", n |-> 5 * Tick]
   @@ "20"         :> [k |-> "num", n |-> 20 * Tick]
   @@ "25"         :> [k |-> "num", n |-> 25 * Tick]
   @@ "-5"         :> [k |-> "num", n |-> (-5) * Tick]
   @@ "3.7"        :> [k |-> "num", n |-> 37000000]
   @@ "-0.5"       :> [k |-> "num", n |-> -5000000]
   @@ "123456"     :> [k |-> "num", n |-> 0]
   @@ "1.23e-02"   :> [k |-> "num", n |-> 123000]
   @@ "1.45e-02"   :> [k |-> "num", n |-> 145000]
   @@ "1.2347e-02" :> [k |-> "num", n |-> 123470]
   @@ "-1.5e-02"   :> [k |-> "num", n |-> -150000]
   @@ "inf"        :> [k |-> "inf", n |-> 0]
   @@ "nan"        :> [k |-> "nan", n |-> 0]
   @@ "NaN"        :> [k |-> "nan", n |-> 0]
   @@ "-nan"       :> [k |-> "nan", n |-> 0]
   @@ "-NAN"       :> [k |-> "nan", n |-> 0] )

ValueError == [k |-> "ValueError", n |-> 0]

PyFloat(v) == IF v \in DOMAIN FloatLiteral THEN FloatLiteral[v] ELSE ValueError

\* v.lower() for the tokens of the model.
LowerLiteral == ( "U" :> "u" @@ "NaN" :> "nan" @@ "-NAN" :> "-nan" )

lower(v) == IF v \in DOMAIN LowerLiteral THEN LowerLiteral[v] ELSE v

\* int(s) of a string token.  An integer is the pair <<hi, lo>> standing for
\* hi * 10^6 + lo with 0 <= lo < 10^6, so that timestamps beyond 32 bits keep
\* their value.
IntLiteral ==
    ( "1735840200"   :> <<1735, 840200>>
   @@ "253402300799" :> <<253402, 300799>>
   @@ "253402300800" :> <<253402, 300800>>
   @@ "12"           :> <<0, 12>>
   @@ "-1"           :> <<-1, 999999>> )

IntLess(a, b) == a[1] < b[1] \/ (a[1] = b[1] /\ a[2] < b[2])

\* int(parts[0].strip()): the part must be exactly one token, an integer
\* literal; anything else raises ValueError.
PyInt(part) ==
    IF Len(part) = 1 /\ part[1] \in DOMAIN IntLiteral
    THEN [ok |-> TRUE, v |-> IntLiteral[part[1]]]
    ELSE [ok |-> FALSE, v |-> <<0, 0>>]

\* int(value) of an environment string: surrounding whitespace, a sign and
\* single underscores between digits are accepted; anything else, the empty
\* string included, raises ValueError.
EnvIntLiteral ==
    ( "20" :> 20 @@ "1" :> 1 @@ "0" :> 0 @@ "-1" :> -1 @@ "3" :> 3
   @@ " 7 " :> 7 @@ "+5" :> 5 @@ "1_0" :> 10 @@ "8080" :> 8080 )

PyIntOfString(value) ==
    IF value \in DOMAIN EnvIntLiteral
    THEN [ok |-> TRUE, v |-> EnvIntLiteral[value]]
    ELSE [ok |-> FALSE, v |-> 0]

\* os.environ.get(name): None when the variable is not set.
Unset == [set |-> FALSE]
EnvString(value) == [set |-> TRUE, value |-> value]

\* parse_int_env without the test against min_val.
parse_int_env_no_minimum(value, default, min_val) ==
    IF ~value.set THEN default
    ELSE LET result == PyIntOfString(value.value)
         IN  IF ~result.ok THEN default ELSE result.v

\* Lines 55-85, _parse_int_env; value is os.environ.get(name).
parse_int_env(value, default, min_val) ==
    IF ~value.set THEN default
    ELSE LET result == PyIntOfString(value.value)
         IN  IF ~result.ok THEN default
             ELSE IF result.v < min_val THEN default
             ELSE result.v

\* Line 104.
TotalPingsFrom(value) == parse_int_env(value, 20, 1)

\* int(x) of a float: truncation toward zero; raises ValueError on NaN and
\* OverflowError on an infinity.
PyIntOfFloat(x) ==
    CASE x.k = "num" -> [exc |-> "", v |-> IF x.n >= 0 THEN x.n \div Tick
                                           ELSE -((-x.n) \div Tick)]
      [] x.k = "nan" -> [exc |-> "ValueError", v |-> 0]
      [] OTHER       -> [exc |-> "OverflowError", v |-> 0]

\* round(num / den, 0) with ties to even, for den > 0.
RoundHalfEven(num, den) ==
    LET q == num \div den
        r == num % den
    IN  IF 2 * r < den THEN q
        ELSE IF 2 * r > den THEN q + 1
        ELSE IF q % 2 = 0 THEN q ELSE q + 1

\* datetime.fromtimestamp(ts, tz=utc) accepts years 1..9999.
MinTimestamp == <<-62136, 403200>>
MaxTimestamp == <<253402, 300799>>

\* datetime.fromtimestamp(timestamp, tz=timezone.utc).isoformat(): the
\* rendering of the instant, or the exception fromtimestamp raises.
isoformat(ts) ==
    IF IntLess(ts, MinTimestamp) \/ IntLess(MaxTimestamp, ts)
    THEN [exc |-> "ValueError", s |-> <<>>]
    ELSE [exc |-> "", s |-> <<"utc", ts[1], ts[2]>>]

-----------------------------------------------------------------------------
(* parse_rrd_lastupdate *)

Blank == << <<>> >>

RECURSIVE lstrip(_)
lstrip(t) ==
    IF t = <<>> THEN <<>>
    ELSE IF Head(t) = Blank THEN lstrip(Tail(t)) ELSE t

RECURSIVE rstrip(_)
rstrip(t) ==
    IF t = <<>> THEN <<>>
    ELSE IF t[Len(t)] = Blank THEN rstrip(SubSeq(t, 1, Len(t) - 1)) ELSE t

\* output.strip().split("\n"): leading and trailing blank lines go; the
\* empty string splits into one empty line.
split_lines(text) ==
    LET s == rstrip(lstrip(text))
    IN  IF s = <<>> THEN <<Blank>> ELSE s

\* data_line_of scanning forward: the first line that holds a colon.
data_line_of_first(lines) ==
    IF \E i \in 1..Len(lines) : Len(lines[i]) >= 2
    THEN lines[CHOOSE i \in 1..Len(lines) :
                   /\ Len(lines[i]) >= 2
                   /\ \A j \in 1..(i - 1) : Len(lines[j]) < 2]
    ELSE <<>>

\* for line in reversed(lines): the last line that holds a colon, <<>> if none.
RECURSIVE data_line_of(_)
data_line_of(lines) ==
    IF lines = <<>> THEN <<>>
    ELSE IF Len(lines[Len(lines)]) >= 2 THEN lines[Len(lines)]
    ELSE data_line_of(SubSeq(lines, 1, Len(lines) - 1))

\* IsValidPing without the test "val > 0" of line 217.
IsValidPing_any_number(v) ==
    /\ lower(v) \notin {"u", "nan", "-nan"}
    /\ PyFloat(v).k \in {"num", "inf"}

\* The test of lines 214-218: v contributes a ping value.
IsValidPing(v) ==
    /\ lower(v) \notin {"u", "nan", "-nan"}
    /\ LET val == PyFloat(v)
       IN  \/ val.k = "inf"
           \/ val.k = "num" /\ val.n > 0

\* The loop of lines 211-220 over values[1:-1].
RECURSIVE collect_pings(_)
collect_pings(vs) ==
    IF vs = <<>> THEN <<>>
    ELSE IF IsValidPing(Head(vs))
         THEN <<PyFloat(Head(vs))>> \o collect_pings(Tail(vs))
         ELSE collect_pings(Tail(vs))

ping_values_of(values) == collect_pings(SubSeq(values, 2, Len(values) - 1))

FloatLE(a, b) == b.k = "inf" \/ (a.k = "num" /\ a.n <= b.n)

RECURSIVE insert_sorted(_, _)
insert_sorted(x, s) ==
    IF s = <<>> THEN <<x>>
    ELSE IF FloatLE(x, Head(s)) THEN <<x>> \o s
    ELSE <<Head(s)>> \o insert_sorted(x, Tail(s))

RECURSIVE sorted(_)
sorted(s) == IF s = <<>> THEN <<>> ELSE insert_sorted(Head(s), sorted(Tail(s)))

\* (a + b) / 2 on floats.
Mean2(a, b) ==
    IF a.k = "inf" \/ b.k = "inf" THEN Inf ELSE Num((a.n + b.n) \div 2)

\* median that takes the upper of the two central values of an even list.
median_upper(data) ==
    LET d == sorted(data)
    IN  d[(Len(d) \div 2) + 1]

\* statistics.median of a non-empty list.
median(data) ==
    LET d == sorted(data)
        n == Len(d)
        i == n \div 2
    IN  IF n % 2 = 1 THEN d[i + 1] ELSE Mean2(d[i], d[i + 1])

\* round(m * 1000, 2), in hundredths of a millisecond.
RoundMs(m) == IF m.k = "inf" THEN Inf ELSE Num(RoundHalfEven(m.n, 100))

\* Lines 223-225.
latency_ms_of(ping_values) ==
    IF ping_values = <<>> THEN None ELSE RoundMs(median(ping_values))

\* The latency computed by src/api/smokeping-api.py lines 137-145: sort, pick
\* the middle or average the two central values, times 1000, round.
legacy_latency_ms(ping_values) ==
    LET pv == sorted(ping_values)
        mid == Len(pv) \div 2
    IN  IF Len(pv) % 2 = 0
        THEN IF pv[mid].k = "inf" \/ pv[mid + 1].k = "inf" THEN Inf
             ELSE Num(RoundHalfEven(pv[mid].n + pv[mid + 1].n, 200))
        ELSE IF pv[mid + 1].k = "inf" THEN Inf
             ELSE Num(RoundHalfEven(pv[mid + 1].n, 100))

\* loss_pct_of without the cap of lines 235-236, as in
\* src/api/smokeping-api.py lines 149-154.
loss_pct_uncapped(values) ==
    LET f == PyFloat(values[Len(values)])
    IN  IF f.k = "ValueError" THEN [exc |-> "", v |-> None]
        ELSE LET c == PyIntOfFloat(f)
             IN  CASE c.exc = "ValueError" -> [exc |-> "", v |-> None]
                   [] c.exc = "OverflowError" ->
                          [exc |-> "OverflowError", v |-> None]
                   [] OTHER ->
                          [exc |-> "",
                           v |-> Num(RoundHalfEven(c.v * 1000, TOTAL_PINGS))]

\* loss_pct_of computed against the number of probe tokens present instead
\* of the configured total.
loss_pct_observed(values) ==
    IF Len(values) - 2 > 0
    THEN LET f == PyFloat(values[Len(values)])
         IN  IF f.k = "ValueError" THEN [exc |-> "", v |-> None]
             ELSE LET c == PyIntOfFloat(f)
                  IN  CASE c.exc = "ValueError" -> [exc |-> "", v |-> None]
                        [] c.exc = "OverflowError" ->
                               [exc |-> "OverflowError", v |-> None]
                        [] OTHER ->
                               LET pct == RoundHalfEven(c.v * 1000,
                                                        Len(values) - 2)
                               IN  [exc |-> "",
                                    v |-> Num(IF pct > 1000 THEN 1000 ELSE pct)]
    ELSE [exc |-> "", v |-> None]

\* Lines 229-238: the loss percentage in tenths of a percent, None when the
\* last token is no number, or the exception that escapes the try block.
loss_pct_of(values) ==
    IF TOTAL_PINGS > 0
    THEN LET f == PyFloat(values[Len(values)])
         IN  IF f.k = "ValueError" THEN [exc |-> "", v |-> None]
             ELSE LET c == PyIntOfFloat(f)
                  IN  CASE c.exc = "ValueError" -> [exc |-> "", v |-> None]
                        [] c.exc = "OverflowError" ->
                               [exc |-> "OverflowError", v |-> None]
                        [] OTHER ->
                               LET pct == RoundHalfEven(c.v * 1000, TOTAL_PINGS)
                               IN  [exc |-> "",
                                    v |-> Num(IF pct > 1000 THEN 1000 ELSE pct)]
    ELSE [exc |-> "", v |-> None]

\* ErrorSample that reports a loss of 0.0 beside the error.
ErrorSample_zero_loss(msg) ==
    [latency_ms |-> None, loss_pct |-> Num(0), error |-> <<msg>>]

\* An error message is a sequence of strings: its fixed text, followed by
\* the pieces an f-string interpolates into it.
ErrorSample(msg) == [latency_ms |-> None, loss_pct |-> None, error |-> <<msg>>]

Raised(e) == [raised |-> e]

\* The locals of a call that ended before line 211.
NoLocals == [latency_ms |-> None, loss_pct |-> None, reached |-> FALSE]

\* Lines 207-244: the success path, after the five format checks.  The loss
\* count is converted before the timestamp is rendered, so its exception is
\* the one that escapes when both would raise.
parse_values(timestamp, values) ==
    LET latency == latency_ms_of(ping_values_of(values))
        loss == loss_pct_of(values)
        iso == isoformat(timestamp)
        locals == [latency_ms |-> latency, loss_pct |-> loss.v, reached |-> TRUE]
    IN  IF loss.exc # "" THEN [ret |-> Raised(loss.exc), locals |-> locals]
        ELSE IF iso.exc # "" THEN [ret |-> Raised(iso.exc), locals |-> locals]
        ELSE [ret |-> [latency_ms |-> latency, loss_pct |-> loss.v,
                       timestamp |-> iso.s],
              locals |-> locals]

Failed(msg) == [ret |-> ErrorSample(msg), locals |-> NoLocals]

\* parse_call with the count of the values tested before the timestamp is
\* converted.
parse_call_values_first(text) ==
    LET lines == split_lines(text)
        data_line == data_line_of(lines)
    IN  IF Len(lines) < 2 THEN Failed("Invalid RRD output")
        ELSE IF data_line = <<>> THEN Failed("No data line found")
        ELSE IF Len(data_line) # 2 THEN Failed("Malformed data line")
        ELSE LET timestamp == PyInt(data_line[1])
                 values == data_line[2]
             IN  IF Len(values) < 2 THEN Failed("Not enough values")
                 ELSE IF ~timestamp.ok THEN Failed("Invalid timestamp")
                 ELSE parse_values(timestamp.v, values)

\* Lines 171-244: what the call returns or raises (ret) and the locals it
\* ended with.
parse_call(text) ==
    LET lines == split_lines(text)
        data_line == data_line_of(lines)
    IN  IF Len(lines) < 2 THEN Failed("Invalid RRD output")
        ELSE IF data_line = <<>> THEN Failed("No data line found")
        ELSE IF Len(data_line) # 2 THEN Failed("Malformed data line")
        ELSE LET timestamp == PyInt(data_line[1])
                 values == data_line[2]
             IN  IF ~timestamp.ok THEN Failed("Invalid timestamp")
                 ELSE IF Len(values) < 2 THEN Failed("Not enough values")
                 ELSE parse_values(timestamp.v, values)

parse_rrd_lastupdate(text) == parse_call(text).ret

-----------------------------------------------------------------------------
(* The file system get_target_data looks at *)

\* An absolute path is the sequence of its components below "/".
\* Files and directories that exist:
\*   /a/b              the data root          /a/b/ext/cf.rrd   an RRD file
\*   /a/bc/cf.rrd      a sibling of the root  /etc/cf.rrd       outside
FsExists ==
    { <<>>, <<"a">>, <<"a", "b">>, <<"a", "b", "ext">>,
      <<"a", "b", "ext", "cf.rrd">>, <<"a", "bc">>, <<"a", "bc", "cf.rrd">>,
      <<"etc">>, <<"etc", "cf.rrd">> }

\* Symbolic links (none of them forms a cycle):
\*   /a/b/out -> /etc      /a/b/in -> /a/b/ext      /d -> /a/b
FsLinks ==
    ( <<"a", "b", "out">> :> <<"etc">>
   @@ <<"a", "b", "in">>  :> <<"a", "b", "ext">>
   @@ <<"d">>             :> <<"a", "b">> )

\* os.path.join(SMOKEPING_DATA_DIR, rrd_path): an absolute second argument
\* discards the first.
path_join(base, rel) == IF rel.abs THEN rel.comps ELSE base \o rel.comps

\* os.path.realpath: component by component, ".." drops the last resolved
\* component (and stays at "/"), a symbolic link is replaced by its target.
RECURSIVE resolve(_, _)
resolve(done, rest) ==
    IF rest = <<>> THEN done
    ELSE LET c == Head(rest)
             p == done \o <<c>>
         IN  IF c = ".."
             THEN resolve(IF done = <<>> THEN <<>>
                          ELSE SubSeq(done, 1, Len(done) - 1), Tail(rest))
             ELSE IF p \in DOMAIN FsLinks
                  THEN resolve(<<>>, FsLinks[p] \o Tail(rest))
                  ELSE resolve(p, Tail(rest))

realpath(path) == resolve(<<>>, path)

\* Pairs <<name, prefix>> of distinct component names of the model of which
\* the second is a prefix of the first, as strings.
NamePrefixes == { <<"bc", "b">> }

\* real_path.startswith(base_path), without the separator: the last
\* component of base_path need only be a prefix of the component at its
\* place in real_path.
startswith_no_sep(real_path, base_path) ==
    \/ base_path = <<>>
    \/ /\ Len(real_path) >= Len(base_path)
       /\ SubSeq(real_path, 1, Len(base_path) - 1)
             = SubSeq(base_path, 1, Len(base_path) - 1)
       /\ \/ real_path[Len(base_path)] = base_path[Len(base_path)]
          \/ <<real_path[Len(base_path)], base_path[Len(base_path)]>>
                \in NamePrefixes

\* real_path.startswith(base_path + os.sep): base_path followed by a
\* separator is a prefix of real_path.  The root itself is "/" and "//" is a
\* prefix of no canonical path.
startswith_sep(real_path, base_path) ==
    /\ base_path # <<>>
    /\ Len(real_path) > Len(base_path)
    /\ SubSeq(real_path, 1, Len(base_path)) = base_path

\* Line 264: the canonical path is the root or lies below it.
IsInside(real_path, base_path) ==
    startswith_sep(real_path, base_path) \/ real_path = base_path

exists(real_path) == real_path \in FsExists

\* The text of a relative path inside an f-string.
PathText(rel) == (IF rel.abs THEN <<"/">> ELSE <<>>) \o rel.comps

-----------------------------------------------------------------------------
(* get_target_data *)

NotFoundSample(rel) ==
    [latency_ms |-> None, loss_pct |-> None,
     error |-> <<"RRD file not found: ">> \o PathText(rel)]

\* path_check without the containment test, as in src/api/smokeping-api.py
\* lines 165-172.
path_check_no_containment(base, rel) ==
    LET real_path == realpath(path_join(base, rel))
    IN  IF ~exists(real_path)
        THEN [verdict |-> "missing", real_path |-> real_path]
        ELSE [verdict |-> "run", real_path |-> real_path]

\* path_check without the existence test of lines 271-276.
path_check_no_exists(base, rel) ==
    LET real_path == realpath(path_join(base, rel))
        base_path == realpath(base)
    IN  IF ~IsInside(real_path, base_path)
        THEN [verdict |-> "invalid", real_path |-> real_path]
        ELSE [verdict |-> "run", real_path |-> real_path]

\* path_check with the existence test made before the containment test.
path_check_exists_first(base, rel) ==
    LET real_path == realpath(path_join(base, rel))
        base_path == realpath(base)
    IN  IF ~exists(real_path)
        THEN [verdict |-> "missing", real_path |-> real_path]
        ELSE IF ~IsInside(real_path, base_path)
             THEN [verdict |-> "invalid", real_path |-> real_path]
             ELSE [verdict |-> "run", real_path |-> real_path]

\* Lines 258-276: the checks made before the tool is run.  "run" means both
\* passed.
path_check(base, rel) ==
    LET real_path == realpath(path_join(base, rel))
        base_path == realpath(base)
    IN  IF ~IsInside(real_path, base_path)
        THEN [verdict |-> "invalid", real_path |-> real_path]
        ELSE IF ~exists(real_path)
             THEN [verdict |-> "missing", real_path |-> real_path]
             ELSE [verdict |-> "run", real_path |-> real_path]

\* on_completed that puts the tool's standard error into the message, as in
\* src/api/smokeping-api.py lines 182-187.
on_completed_with_stderr(returncode, stdout, stderr) ==
    IF returncode # 0
    THEN [latency_ms |-> None, loss_pct |-> None,
          error |-> <<"rrdtool error: ", stderr>>]
    ELSE LET r == parse_rrd_lastupdate(stdout)
         IN  IF "raised" \in DOMAIN r
             THEN ErrorSample("Unexpected error reading RRD file")
             ELSE r

\* on_completed with the parser called outside the try block: what the
\* parser raises is not caught.
on_completed_uncaught(returncode, stdout, stderr) ==
    IF returncode # 0 THEN ErrorSample("rrdtool error reading file")
    ELSE parse_rrd_lastupdate(stdout)

\* Lines 286-294 and 300-302: subprocess.run returned; a non-zero status is an
\* error, otherwise the parser's result is returned and an exception it
\* raises is caught by "except Exception".
on_completed(returncode, stdout, stderr) ==
    IF returncode # 0 THEN ErrorSample("rrdtool error reading file")
    ELSE LET r == parse_rrd_lastupdate(stdout)
         IN  IF "raised" \in DOMAIN r
             THEN ErrorSample("Unexpected error reading RRD file")
             ELSE r

\* on_exception with "except Exception" as the only handler.
on_exception_catch_all(kind, text) ==
    ErrorSample("Unexpected error reading RRD file")

\* Lines 296-302: subprocess.run raised.
on_exception(kind, text) ==
    CASE kind = "TimeoutExpired"    -> ErrorSample("rrdtool timeout")
      [] kind = "FileNotFoundError" -> ErrorSample("rrdtool not installed")
      [] OTHER -> ErrorSample("Unexpected error reading RRD file")

-----------------------------------------------------------------------------
(* Inputs *)

MaxProbes == 3
MaxLines == 3
MaxPathLen == 3

\* Sequences over S of length 0..n.
SeqUpTo(S, n) == UNION {[1..k -> S] : k \in 0..n}

ProbeTokens ==
    {"1.23e-02", "1.45e-02", "1.2347e-02", "0", "-1.5e-02", "U", "abc",
     "inf"}

LossTokens == {"0", "5", "20", "25", "-5", "3.7", "-0.5", "U", "nan", "inf"}

Header == << <<"uptime", "ping1", "loss">> >>

DataLine(ts, probes, loss) == << <<ts>>, <<"123456">> \o probes \o <<loss>> >>

\* The shape rrdtool prints: a header, a blank line, the data line.
ProbeTexts ==
    {<<Header, Blank, DataLine("1735840200", p, l)>> :
        p \in SeqUpTo(ProbeTokens, MaxProbes), l \in {"0", "abc"}}

LossTexts ==
    {<<Header, Blank, DataLine("1735840200", p, l)>> :
        p \in {<<>>, <<"1.23e-02">>, <<"U", "-NAN", "nan">>}, l \in LossTokens}

\* Lines of every shape the format checks tell apart.
ShapeLines ==
    { Blank,
      Header,
      DataLine("1735840200", <<"1.23e-02">>, "0"),
      << <<"1735840200">>, <<"123456">> >>,
      << <<"not_a_number">>, <<"123456", "1.45e-02", "0">> >>,
      << <<"12">>, <<"12">>, <<"123456", "0">> >>,
      DataLine("253402300800", <<"1.23e-02">>, "abc") }

ShapeTexts == UNION {[1..k -> ShapeLines] : k \in 1..MaxLines}

\* Lines on which more than one format check would fail.
DefectLines ==
    { << <<"not_a_number">>, <<"123456">> >>,
      << <<"abc">>, <<"12">>, <<"0">> >>,
      << <<>>, <<>> >> }

DefectTexts ==
    UNION {{<<l>>, <<Header, l>>, <<l, Header>>, <<Blank, l, Blank>>,
            <<DataLine("1735840200", <<"1.23e-02">>, "0"), l, Header>>} :
           l \in DefectLines}

Texts == ProbeTexts \cup LossTexts \cup ShapeTexts \cup DefectTexts

TotalPingsValues == {3, 20}

\* An environment that gives the total: 20 is the default.
EnvironFor(total) == IF total = 20 THEN Unset ELSE EnvString("3")

EnvValues ==
    {Unset} \cup
    {EnvString(v) : v \in {"20", "1", "0", "-1", "3", " 7 ", "+5", "1_0",
                           "8080", "", "abc", "3.5", "1e3", "0x10"}}

\* What rrdtool may print on standard output: one text for every way the
\* parser can end.
ToolTexts ==
    { <<Blank>>,
      <<Header, Blank>>,
      <<Header, Blank, DataLine("1735840200", <<"1.23e-02", "1.45e-02">>, "0")>>,
      <<Header, Blank, DataLine("1735840200", <<"U", "U">>, "20")>>,
      <<Header, Blank, DataLine("1735840200", <<"1.23e-02">>, "abc")>>,
      <<Header, Blank, DataLine("1735840200", <<"U">>, "abc")>>,
      <<Header, Blank, DataLine("1735840200", <<"1.23e-02">>, "inf")>>,
      <<Header, Blank, DataLine("253402300800", <<"1.23e-02">>, "0")>>,
      <<Header, << <<"12">>, <<"12">>, <<"123456", "0">> >> >>,
      <<Header, << <<"not_a_number">>, <<"123456", "1.45e-02", "0">> >> >>,
      <<Header, << <<"1735840200">>, <<"123456">> >> >> }

StderrTexts == {"", "ERROR: opening '/a/b/ext/cf.rrd': Permission denied",
                "ERROR: '/a/b/ext/cf.rrd' is not an RRD file"}

ExceptionTexts == {"[Errno 13] Permission denied: 'rrdtool'",
                   "'utf-8' codec can't decode byte 0xff"}

PathNames == {"ext", "cf.rrd", "..", "out", "in", "nofile", "bc", "etc", "d"}

RelPaths == [abs : BOOLEAN, comps : SeqUpTo(PathNames, MaxPathLen)]

DataDirs == { <<"a", "b">>, <<"d">> }

-----------------------------------------------------------------------------
(* The request handler: SmokePingAPIHandler *)

\* Line 283: the timeout given to subprocess.run, in seconds.
TIMEOUT == 5

\* Lines 109-114: the target map, in insertion order.  The paths are paths of
\* the model's file tree: the first file exists, the second does not, the
\* third is reached through a link that leaves the data root, the fourth
\* through a link that stays inside it.
DefaultTargets ==
    << <<"cloudflare", [abs |-> FALSE, comps |-> <<"ext", "cf.rrd">>]>>,
       <<"google", [abs |-> FALSE, comps |-> <<"ext", "nofile">>]>>,
       <<"aws_use1", [abs |-> FALSE, comps |-> <<"out", "cf.rrd">>]>>,
       <<"netflix", [abs |-> FALSE, comps |-> <<"in", "cf.rrd">>]>> >>

\* Lines 118 and 149.
HOSTNAME == "smokeping-1"
ISP == "unknown"

\* list(TARGETS.keys())
keys(T) == [i \in 1..Len(T) |-> T[i][1]]

\* target_name in TARGETS
has_key(T, name) == \E i \in 1..Len(T) : T[i][1] = name

\* TARGETS[target_name]
get_item(T, name) == T[CHOOSE i \in 1..Len(T) : T[i][1] = name][2]

\* results[target_name] = value
set_item(d, name, value) ==
    IF has_key(d, name)
    THEN [i \in 1..Len(d) |-> IF d[i][1] = name THEN <<name, value>> ELSE d[i]]
    ELSE Append(d, <<name, value>>)

\* A request path is held by its segments: "/" is <<>>, "/target/x" is
\* <<"target", "x">>, and a trailing slash gives a last segment "".
\* The segments the class [\w-]+ of line 357 matches, among those of the
\* model: "a.b" and "" are not matched.
WordSegments ==
    {"cloudflare", "google", "aws_use1", "netflix", "aws-use1", "nonexistent",
     "health", "metrics", "target"}

\* Line 357: re.match(r"^/target/([\w-]+)$", self.path)
re_match(path) ==
    /\ Len(path) = 2
    /\ path[1] = "target"
    /\ path[2] \in WordSegments

\* Lines 337, 341, 357-358 and 375: the branch do_GET takes.
route(path) ==
    IF path = <<"health">> THEN "health"
    ELSE IF path \in {<<>>, <<"metrics">>} THEN "bulk"
    ELSE IF re_match(path) THEN "target"
    ELSE "unknown"

\* Lines 321-327.
send_json(data, status) == [status |-> status, body |-> data]

\* Line 338.
HealthBody == [status |-> "ok", hostname |-> HOSTNAME, isp |-> ISP]

\* Lines 347-352; the time of collection is outside the model.
BulkBody(res) ==
    [targets |-> res, isp |-> ISP, hostname |-> HOSTNAME,
     collected_at |-> "now"]

\* Lines 361-363: the Sample with the keys "target" and "isp" set.
TargetBody(data, name) ==
    [k \in DOMAIN data \cup {"target", "isp"} |->
        IF k = "target" THEN name
        ELSE IF k = "isp" THEN ISP
        ELSE data[k]]

\* The body for an unknown target without the list of targets.
UnknownTargetBody_no_list(name, T) ==
    [error |-> <<"Unknown target: ", name>>]

\* Lines 366-372.
UnknownTargetBody(name, T) ==
    [error |-> <<"Unknown target: ", name>>, available |-> keys(T)]

\* Lines 375-379.
NotFoundBody ==
    [error |-> <<"Not found">>,
     endpoints |-> <<"/", "/health", "/target/<name>">>]

-----------------------------------------------------------------------------
(* State machines *)

MaxRequests == 2

RequestPaths ==
    { <<>>, <<"health">>, <<"metrics">>, <<"metrics", "">>, <<"target">>,
      <<"target", "">>, <<"target", "cloudflare">>, <<"target", "google">>,
      <<"target", "aws_use1">>, <<"target", "netflix">>,
      <<"target", "aws-use1">>, <<"target", "nonexistent">>,
      <<"target", "a.b">>, <<"target", "cloudflare", "x">>,
      <<"unknown", "path">> }

NoResult == [pending |-> TRUE]
NoTool == [kind |-> "none"]
NoPath == <<"-">>
NoText == <<>>
NoRelPath == [abs |-> FALSE, comps |-> <<>>]
NoRequest == [command |-> "none"]
NoResponse == [status |-> 0]

\* No request is being handled.
InitHandler ==
    /\ TARGETS = DefaultTargets
    /\ request = NoRequest
    /\ todo = <<>>
    /\ fetched = <<>>
    /\ results = <<>>
    /\ response = NoResponse
    /\ served = 0

\* The parser alone: one call on one input.
InitParse ==
    /\ TOTAL_PINGS \in TotalPingsValues
    /\ environ = EnvironFor(TOTAL_PINGS)
    /\ SMOKEPING_DATA_DIR = <<"a", "b">>
    /\ rrd_path = NoRelPath
    /\ tool = NoTool
    /\ tool_arg = NoPath
    /\ runs = 0
    /\ output \in Texts
    /\ parsed = NoResult
    /\ frame = NoLocals
    /\ sample = NoResult
    /\ pc = "parse"
    /\ clock = 0
    /\ InitHandler

\* A parser that keeps the number of value tokens it saw as the configured
\* total.
Parse_sets_total ==
    /\ pc = "parse"
    /\ parsed' = parse_rrd_lastupdate(output)
    /\ frame' = parse_call(output).locals
    /\ pc' = "parsed"
    /\ TOTAL_PINGS' = Len(data_line_of(split_lines(output))) + 1
    /\ UNCHANGED <<environ, SMOKEPING_DATA_DIR, rrd_path, tool, tool_arg, runs, output,
                   sample, clock, handler>>

Parse ==
    /\ pc = "parse"
    /\ parsed' = parse_rrd_lastupdate(output)
    /\ frame' = parse_call(output).locals
    /\ pc' = "parsed"
    /\ UNCHANGED <<environ, TOTAL_PINGS, SMOKEPING_DATA_DIR, rrd_path, tool, tool_arg,
                   runs, output, sample, clock, handler>>

\* The parser is called a second time on the same text.
ParseAgain ==
    /\ pc = "parsed"
    /\ parsed' = parse_rrd_lastupdate(output)
    /\ frame' = parse_call(output).locals
    /\ pc' = "parsed again"
    /\ UNCHANGED <<environ, TOTAL_PINGS, SMOKEPING_DATA_DIR, rrd_path, tool, tool_arg,
                   runs, output, sample, clock, handler>>

NextParse == Parse \/ ParseAgain

SpecParse == InitParse /\ [][NextParse]_vars

\* The module is loaded in some environment, then the parser is called.
InitConfig ==
    /\ environ \in EnvValues
    /\ TOTAL_PINGS = TotalPingsFrom(environ)
    /\ SMOKEPING_DATA_DIR = <<"a", "b">>
    /\ rrd_path = NoRelPath
    /\ tool = NoTool
    /\ tool_arg = NoPath
    /\ runs = 0
    /\ output \in LossTexts
    /\ parsed = NoResult
    /\ frame = NoLocals
    /\ sample = NoResult
    /\ pc = "parse"
    /\ clock = 0
    /\ InitHandler

SpecConfig == InitConfig /\ [][NextParse]_vars

\* get_target_data: one call, split where it blocks in subprocess.run.
Init ==
    /\ TOTAL_PINGS \in TotalPingsValues
    /\ environ = EnvironFor(TOTAL_PINGS)
    /\ SMOKEPING_DATA_DIR \in DataDirs
    /\ rrd_path \in RelPaths
    /\ tool = NoTool
    /\ tool_arg = NoPath
    /\ runs = 0
    /\ output = NoText
    /\ parsed = NoResult
    /\ frame = NoLocals
    /\ sample = NoResult
    /\ pc = "call"
    /\ clock = 0
    /\ InitHandler

configuration == <<environ, TOTAL_PINGS, SMOKEPING_DATA_DIR, rrd_path>>

\* Lines 258-284: the path checks, then the call of subprocess.run.
Call ==
    /\ pc = "call"
    /\ LET c == path_check(SMOKEPING_DATA_DIR, rrd_path)
       IN  \/ /\ c.verdict = "invalid"
              /\ sample' = ErrorSample("Invalid path")
              /\ pc' = "returned"
              /\ UNCHANGED <<tool_arg, runs>>
           \/ /\ c.verdict = "missing"
              /\ sample' = NotFoundSample(rrd_path)
              /\ pc' = "returned"
              /\ UNCHANGED <<tool_arg, runs>>
           \/ /\ c.verdict = "run"
              /\ tool_arg' = c.real_path
              /\ runs' = runs + 1
              /\ pc' = "running"
              /\ UNCHANGED sample
    /\ UNCHANGED <<configuration, tool, output, parsed, frame, clock, handler>>

\* A second passes while subprocess.run waits for rrdtool.
TimePasses ==
    /\ pc = "running"
    /\ clock < TIMEOUT
    /\ clock' = clock + 1
    /\ UNCHANGED <<configuration, tool, tool_arg, runs, output, parsed, frame,
                   sample, pc, handler>>

\* rrdtool exits before the timeout and subprocess.run returns; lines 286-294.
ToolExits ==
    /\ pc = "running"
    /\ clock < TIMEOUT
    /\ \E returncode \in {0, 1}, stdout \in ToolTexts, stderr \in StderrTexts :
          /\ tool' = [kind |-> "exit", returncode |-> returncode,
                      stdout |-> stdout, stderr |-> stderr]
          /\ IF returncode = 0
             THEN /\ output' = stdout
                  /\ parsed' = parse_rrd_lastupdate(stdout)
                  /\ frame' = parse_call(stdout).locals
             ELSE UNCHANGED <<output, parsed, frame>>
          /\ sample' = on_completed(returncode, stdout, stderr)
    /\ pc' = "returned"
    /\ clock' = 0
    /\ UNCHANGED <<configuration, tool_arg, runs, handler>>

\* ToolRaises with a retry: the tool is run again after an exception.
ToolRaises_retry ==
    /\ pc = "running"
    /\ clock < TIMEOUT
    /\ runs < 3
    /\ runs' = runs + 1
    /\ UNCHANGED <<configuration, tool, tool_arg, output, parsed, frame,
                   sample, pc, clock, handler>>

\* subprocess.run raises before the timeout: a missing binary, anything else.
ToolRaises ==
    /\ pc = "running"
    /\ clock < TIMEOUT
    /\ \E kind \in {"FileNotFoundError", "PermissionError",
                    "UnicodeDecodeError"},
          text \in ExceptionTexts :
          /\ tool' = [kind |-> kind, text |-> text]
          /\ sample' = on_exception(kind, text)
    /\ pc' = "returned"
    /\ clock' = 0
    /\ UNCHANGED <<configuration, tool_arg, runs, output, parsed, frame,
                   handler>>

\* subprocess.run called without a timeout: it waits for as long as rrdtool
\* runs.
ToolTimeout_none ==
    /\ FALSE
    /\ UNCHANGED vars

\* Lines 283 and 296-297: rrdtool has not exited when the timeout is reached;
\* subprocess.run kills it and raises TimeoutExpired.
ToolTimeout ==
    /\ pc = "running"
    /\ clock = TIMEOUT
    /\ tool' = [kind |-> "TimeoutExpired", text |-> "timed out",
                timeout |-> clock]
    /\ sample' = on_exception("TimeoutExpired", "timed out")
    /\ pc' = "returned"
    /\ clock' = 0
    /\ UNCHANGED <<configuration, tool_arg, runs, output, parsed, frame,
                   handler>>

Next == Call \/ TimePasses \/ ToolExits \/ ToolRaises \/ ToolTimeout

Spec == Init /\ [][Next]_vars


\* Both entry points: a call of the parser or a call of get_target_data.
InitAll == InitParse \/ Init

NextAll == NextParse \/ Next

SpecAll == InitAll /\ [][NextAll]_vars

\* The server: requests are handled one at a time (HTTPServer, line 390).
InitServer ==
    /\ TOTAL_PINGS \in TotalPingsValues
    /\ environ = EnvironFor(TOTAL_PINGS)
    /\ SMOKEPING_DATA_DIR \in DataDirs
    /\ rrd_path = NoRelPath
    /\ tool = NoTool
    /\ tool_arg = NoPath
    /\ runs = 0
    /\ output = NoText
    /\ parsed = NoResult
    /\ frame = NoLocals
    /\ sample = NoResult
    /\ pc = "idle"
    /\ clock = 0
    /\ InitHandler

\* do_GET calls get_target_data(name, TARGETS[name]).
Fetch(name, rest) ==
    /\ rrd_path' = get_item(TARGETS, name)
    /\ fetched' = Append(fetched, name)
    /\ todo' = rest
    /\ pc' = "call"
    /\ UNCHANGED response

\* The handler sends its response.
Answer(resp) ==
    /\ response' = resp
    /\ pc' = "responded"
    /\ UNCHANGED <<rrd_path, fetched, todo>>

\* Lines 329-333.
do_OPTIONS ==
    /\ pc = "idle"
    /\ served < MaxRequests
    /\ \E path \in RequestPaths :
          request' = [command |-> "OPTIONS", path |-> path]
    /\ Answer([status |-> 204, body |-> <<>>])
    /\ UNCHANGED <<environ, TOTAL_PINGS, SMOKEPING_DATA_DIR, TARGETS, tool, tool_arg,
                   runs, output, parsed, frame, sample, clock, results,
                   served>>

\* Lines 335-379, up to the first call of get_target_data or to the response.
do_GET ==
    /\ pc = "idle"
    /\ served < MaxRequests
    /\ \E path \in RequestPaths :
          /\ request' = [command |-> "GET", path |-> path]
          /\ CASE route(path) = "health" ->
                    Answer(send_json(HealthBody, 200))
               [] route(path) = "bulk" ->
                    IF TARGETS = <<>>
                    THEN Answer(send_json(BulkBody(results), 200))
                    ELSE Fetch(Head(keys(TARGETS)), Tail(keys(TARGETS)))
               [] route(path) = "target" ->
                    IF has_key(TARGETS, path[2])
                    THEN Fetch(path[2], <<>>)
                    ELSE Answer(send_json(UnknownTargetBody(path[2], TARGETS),
                                          404))
               [] OTHER -> Answer(send_json(NotFoundBody, 404))
    /\ UNCHANGED <<environ, TOTAL_PINGS, SMOKEPING_DATA_DIR, TARGETS, tool, tool_arg,
                   runs, output, parsed, frame, sample, clock, results,
                   served>>

\* do_GET_continue that leaves the loop at the first error Sample.
do_GET_stop_on_error ==
    /\ pc = "returned"
    /\ request # NoRequest
    /\ LET name == fetched[Len(fetched)]
           bulk == route(request.path) = "bulk"
           collected == IF bulk THEN set_item(results, name, sample)
                        ELSE results
       IN  /\ results' = collected
           /\ IF todo # <<>> /\ "error" \notin DOMAIN sample
              THEN Fetch(Head(todo), Tail(todo))
              ELSE IF bulk THEN Answer(send_json(BulkBody(collected), 200))
              ELSE Answer(send_json(TargetBody(sample, name), 200))
    /\ tool' = NoTool
    /\ tool_arg' = NoPath
    /\ output' = NoText
    /\ parsed' = NoResult
    /\ frame' = NoLocals
    /\ sample' = NoResult
    /\ UNCHANGED <<environ, TOTAL_PINGS, SMOKEPING_DATA_DIR, TARGETS, runs, clock,
                   request, served>>

\* Lines 343-354 and 360-364: get_target_data has returned into do_GET, which
\* stores the Sample and goes on to the next target or sends the response.
do_GET_continue ==
    /\ pc = "returned"
    /\ request # NoRequest
    /\ LET name == fetched[Len(fetched)]
           bulk == route(request.path) = "bulk"
           collected == IF bulk THEN set_item(results, name, sample)
                        ELSE results
       IN  /\ results' = collected
           /\ IF todo # <<>> THEN Fetch(Head(todo), Tail(todo))
              ELSE IF bulk THEN Answer(send_json(BulkBody(collected), 200))
              ELSE Answer(send_json(TargetBody(sample, name), 200))
    /\ tool' = NoTool
    /\ tool_arg' = NoPath
    /\ output' = NoText
    /\ parsed' = NoResult
    /\ frame' = NoLocals
    /\ sample' = NoResult
    /\ UNCHANGED <<environ, TOTAL_PINGS, SMOKEPING_DATA_DIR, TARGETS, runs, clock,
                   request, served>>

\* serve_forever with the collected Samples kept between requests, as a
\* module-level cache would.
serve_forever_keeps_results ==
    /\ pc = "responded"
    /\ request' = NoRequest
    /\ todo' = <<>>
    /\ fetched' = <<>>
    /\ response' = NoResponse
    /\ rrd_path' = NoRelPath
    /\ runs' = 0
    /\ served' = served + 1
    /\ pc' = "idle"
    /\ UNCHANGED <<environ, TOTAL_PINGS, SMOKEPING_DATA_DIR, TARGETS, tool, tool_arg,
                   output, parsed, frame, sample, clock, results>>

\* Line 396: the handler has returned and serve_forever takes the next
\* request; the locals of the handled request are gone.
serve_forever ==
    /\ pc = "responded"
    /\ request' = NoRequest
    /\ todo' = <<>>
    /\ fetched' = <<>>
    /\ results' = <<>>
    /\ response' = NoResponse
    /\ rrd_path' = NoRelPath
    /\ runs' = 0
    /\ served' = served + 1
    /\ pc' = "idle"
    /\ UNCHANGED <<environ, TOTAL_PINGS, SMOKEPING_DATA_DIR, TARGETS, tool, tool_arg,
                   output, parsed, frame, sample, clock>>

NextServer == do_OPTIONS \/ do_GET \/ do_GET_continue \/ serve_forever \/ Next

SpecServer == InitServer /\ [][NextServer]_vars

\* The handler runs on the server's one thread, which is never suspended for
\* good: a call of get_target_data that was made is executed and one that
\* returned is continued; time passes; subprocess.run enforces its timeout.
\* Nothing is assumed of rrdtool, which may never exit, nor of the clients,
\* which may send no further request.
Fairness ==
    /\ WF_vars(Call)
    /\ WF_vars(TimePasses)
    /\ WF_vars(ToolTimeout)
    /\ WF_vars(do_GET_continue)

FairSpec == SpecServer /\ Fairness

-----------------------------------------------------------------------------
(* Vocabulary of the properties *)

IsSample(r) == "latency_ms" \in DOMAIN r
HasError(r) == "error" \in DOMAIN r
HasTimestamp(r) == "timestamp" \in DOMAIN r
IsRaised(r) == "raised" \in DOMAIN r

\* The five format checks pass: at least two lines, a line with a colon,
\* exactly two parts, an integer first part, at least two value tokens.
StepsPass(text) ==
    LET lines == split_lines(text)
        data_line == data_line_of(lines)
    IN  /\ Len(lines) >= 2
        /\ data_line # <<>>
        /\ Len(data_line) = 2
        /\ PyInt(data_line[1]).ok
        /\ Len(data_line[2]) >= 2

\* The value tokens of the data line, when the format checks pass.
ValuesOf(text) == data_line_of(split_lines(text))[2]

ProbesOf(text) == SubSeq(ValuesOf(text), 2, Len(ValuesOf(text)) - 1)

LastToken(text) == ValuesOf(text)[Len(ValuesOf(text))]

\* The text with the value tokens of its data line replaced.
WithValues(text, vs) ==
    LET lines == split_lines(text)
        i == CHOOSE k \in 1..Len(lines) :
                 /\ Len(lines[k]) >= 2
                 /\ \A j \in (k + 1)..Len(lines) : Len(lines[j]) < 2
    IN  [lines EXCEPT ![i] = <<@[1], vs>>]

\* A token that denotes a strictly positive number.
IsPositiveNumber(v) ==
    \/ PyFloat(v).k = "inf"
    \/ PyFloat(v).k = "num" /\ PyFloat(v).n > 0

\* The positive numbers among the probe tokens, in the order of the line.
PositiveProbes(text) ==
    LET ps == ProbesOf(text)
        F[i \in 0..Len(ps)] ==
            IF i = 0 THEN <<>>
            ELSE IF IsPositiveNumber(ps[i]) THEN Append(F[i - 1], PyFloat(ps[i]))
            ELSE F[i - 1]
    IN  F[Len(ps)]

Below(a, b) == a.k = "num" /\ (b.k = "inf" \/ a.n < b.n)

\* The k-th smallest element of the list V, by counting.
KthSmallest(V, k) ==
    CHOOSE x \in {V[i] : i \in 1..Len(V)} :
        /\ Cardinality({i \in 1..Len(V) : Below(V[i], x)}) < k
        /\ k <= Cardinality({i \in 1..Len(V) : ~Below(x, V[i])})

Abs(x) == IF x >= 0 THEN x ELSE -x

\* lat (hundredths of a millisecond) is the median of V (units of 1e-7 s)
\* times 1000, rounded to two decimals: the middle value of an odd list, the
\* mean of the two central values of an even one.
IsMedianMs(lat, V) ==
    LET n == Len(V)
        lo == KthSmallest(V, (n + 1) \div 2)
        hi == KthSmallest(V, (n \div 2) + 1)
    IN  IF lo.k = "inf" \/ hi.k = "inf" THEN lat = Inf
        ELSE /\ lat.k = "num"
             /\ Abs(200 * lat.n - (lo.n + hi.n)) <= 100

Swap(s, i, j) == [s EXCEPT ![i] = s[j], ![j] = s[i]]

InsertAt(s, i, x) == SubSeq(s, 1, i) \o <<x>> \o SubSeq(s, i + 1, Len(s))

RemoveAt(s, i) == SubSeq(s, 1, i - 1) \o SubSeq(s, i + 1, Len(s))

\* Tokens that are zero, negative, a no-reply sentinel in any letter case,
\* or no number at all.
DeadTokens ==
    {"0", "-1.5e-02", "-5", "u", "U", "nan", "NaN", "-nan", "-NAN", "abc",
     "1,5"}

\* The loss count of a token: float(token) truncated toward zero.
HasLossCount(v) == PyFloat(v).k = "num"

LossCount(v) ==
    LET x == PyFloat(v).n
    IN  IF x >= 0 THEN x \div Tick ELSE -((-x) \div Tick)

-----------------------------------------------------------------------------
(* Properties *)

\* C1: every non-null loss_pct the parser returns lies in [0, 100],
\* whatever the last token of the data line is.
C1_LossPctInRange ==
    (pc = "parsed" /\ IsSample(parsed) /\ parsed.loss_pct # None)
        => (parsed.loss_pct.n >= 0 /\ parsed.loss_pct.n <= 1000)

\* C2: when the canonical path of data_root + relative_path lies outside the
\* canonical data root, get_target_data returns the error Sample
\* "Invalid path" with null latency and loss and runs no subprocess.
C2_OutsideRootNeverRuns ==
    (pc # "call"
       /\ ~IsInside(realpath(path_join(SMOKEPING_DATA_DIR, rrd_path)),
                    realpath(SMOKEPING_DATA_DIR)))
        => /\ pc = "returned"
           /\ sample = [latency_ms |-> None, loss_pct |-> None,
                        error |-> <<"Invalid path">>]
           /\ runs = 0
           /\ tool_arg = NoPath
           /\ tool = NoTool

\* A file that exists outside the root, reached through a symbolic link or
\* through "..", was refused.
C2_Witness ==
    /\ pc = "returned"
    /\ sample.error = <<"Invalid path">>
    /\ realpath(path_join(SMOKEPING_DATA_DIR, rrd_path)) \in
           {<<"etc", "cf.rrd">>, <<"a", "bc", "cf.rrd">>}
    /\ runs = 0

\* C3: a Sample returned by parse_rrd_lastupdate or by get_target_data that
\* carries an error has a null latency_ms, a null loss_pct and no timestamp.
ErrorSampleIsBare(r) ==
    (IsSample(r) /\ HasError(r))
        => (r.latency_ms = None /\ r.loss_pct = None /\ ~HasTimestamp(r))

C3_ErrorSamplesAreBare == ErrorSampleIsBare(parsed) /\ ErrorSampleIsBare(sample)

\* An error of the parser came back through get_target_data.
C3_Witness ==
    /\ pc = "returned"
    /\ HasError(parsed)
    /\ sample = parsed
    /\ sample.error = <<"Invalid timestamp">>

\* C4: when the five format checks pass, the parser returns a Sample with a
\* timestamp and without an error.
C4_StepsPassGivesSuccess ==
    (pc = "parsed" /\ StepsPass(output))
        => (IsSample(parsed) /\ HasTimestamp(parsed) /\ ~HasError(parsed))

\* C5: with at least one positive probe value, latency_ms is the median of
\* the positive values times 1000 rounded to two decimals; it is the same
\* for every order of the probe tokens, equals what the explicit
\* sort-and-pick of smokeping-api.py computes, and is the latency_ms of the
\* Sample when one is returned.
C5_LatencyIsMedian ==
    (pc = "parsed" /\ StepsPass(output) /\ PositiveProbes(output) # <<>>)
        => /\ frame.reached
           /\ IsMedianMs(frame.latency_ms, PositiveProbes(output))
           /\ frame.latency_ms = legacy_latency_ms(PositiveProbes(output))
           /\ IsSample(parsed) => parsed.latency_ms = frame.latency_ms
           /\ \A i, j \in 2..(Len(ValuesOf(output)) - 1) :
                 parse_call(WithValues(output, Swap(ValuesOf(output), i, j)))
                     = [ret |-> parsed, locals |-> frame]

\* An even number of distinct positive values, not in ascending order.
C5_Witness ==
    /\ pc = "parsed"
    /\ StepsPass(output)
    /\ ProbesOf(output) = <<"1.45e-02", "U", "1.23e-02">>
    /\ parsed.latency_ms = Num(1340)

\* C6: inserting a dead token at any probe position, or removing one, leaves
\* the outcome of the parse unchanged.
C6_DeadTokensDoNotCount ==
    (pc = "parsed" /\ StepsPass(output))
        => LET vs == ValuesOf(output)
           IN  /\ \A i \in 1..(Len(vs) - 1), t \in DeadTokens :
                     parse_call(WithValues(output, InsertAt(vs, i, t)))
                         = [ret |-> parsed, locals |-> frame]
               /\ \A i \in 2..(Len(vs) - 1) :
                     vs[i] \in DeadTokens =>
                         parse_call(WithValues(output, RemoveAt(vs, i)))
                             = [ret |-> parsed, locals |-> frame]

\* A line with dead tokens around a positive value.
C6_Witness ==
    /\ pc = "parsed"
    /\ StepsPass(output)
    /\ ProbesOf(output) = <<"-1.5e-02", "1.23e-02", "0">>
    /\ parsed.latency_ms = Num(1230)

\* C7: when the five format checks pass, latency_ms is null exactly when no
\* probe token is a positive number, the Sample carries no error, and
\* loss_pct is computed from the last token.
C7_NullLatencyIsNoError ==
    (pc = "parsed" /\ StepsPass(output))
        => /\ IsSample(parsed)
           /\ ~HasError(parsed)
           /\ parsed.latency_ms = None <=> PositiveProbes(output) = <<>>
           /\ (parsed.latency_ms = None /\ HasLossCount(LastToken(output)))
                 => parsed.loss_pct # None

\* On the calls that return a Sample, latency_ms is null exactly when no
\* probe token is a positive number, that is no error, and loss_pct is
\* computed whenever the last token is a loss count.
C7_OnReturnedSamples ==
    (pc = "parsed" /\ StepsPass(output) /\ IsSample(parsed))
        => /\ ~HasError(parsed)
           /\ parsed.latency_ms = None <=> PositiveProbes(output) = <<>>
           /\ HasLossCount(LastToken(output)) => parsed.loss_pct # None

\* C8: when the five format checks pass and the last token is no loss count,
\* the parser raises nothing and returns a Sample with a null loss_pct, the
\* latency of the probe tokens, a timestamp and no error.
C8_BadLossTokenTolerated ==
    (pc = "parsed" /\ StepsPass(output) /\ ~HasLossCount(LastToken(output)))
        => /\ IsSample(parsed)
           /\ parsed.loss_pct = None
           /\ parsed.latency_ms = frame.latency_ms
           /\ HasTimestamp(parsed)
           /\ ~HasError(parsed)

\* C9: a loss count above the configured total gives exactly 100.0; a count
\* c with 0 <= c <= total gives c / total * 100 rounded to one decimal; c is
\* the last token as a float, truncated.  The Sample, when one is returned,
\* carries that value.
C9_LossPct ==
    (pc = "parsed" /\ StepsPass(output) /\ HasLossCount(LastToken(output)))
        => LET c == LossCount(LastToken(output))
           IN  /\ frame.reached
               /\ c > TOTAL_PINGS => frame.loss_pct = Num(1000)
               /\ (0 <= c /\ c <= TOTAL_PINGS) =>
                     /\ frame.loss_pct.k = "num"
                     /\ 2 * Abs(frame.loss_pct.n * TOTAL_PINGS - 1000 * c)
                            <= TOTAL_PINGS
               /\ IsSample(parsed) => parsed.loss_pct = frame.loss_pct

\* 25 lost pings of 20.
C9_Witness ==
    /\ pc = "parsed"
    /\ TOTAL_PINGS = 20
    /\ StepsPass(output)
    /\ LastToken(output) = "25"
    /\ parsed.loss_pct = Num(1000)

\* C10: the Sample get_target_data returns after a non-zero exit does not
\* depend on the tool's standard error, and the one it returns after an
\* unexpected exception does not depend on the exception's text.
C10_ErrorTextNeverLeaks ==
    /\ (pc = "returned" /\ tool.kind = "exit" /\ tool.returncode # 0)
         => /\ sample.error = <<"rrdtool error reading file">>
            /\ \A e \in StderrTexts :
                  on_completed(tool.returncode, tool.stdout, e) = sample
    /\ (pc = "returned"
          /\ tool.kind \notin {"none", "exit", "TimeoutExpired",
                               "FileNotFoundError"})
         => /\ sample.error = <<"Unexpected error reading RRD file">>
            /\ \A e \in ExceptionTexts : on_exception(tool.kind, e) = sample

\* A failed run with diagnostics on standard error.
C10_Witness ==
    /\ pc = "returned"
    /\ tool.kind = "exit"
    /\ tool.returncode = 1
    /\ tool.stderr = "ERROR: '/a/b/ext/cf.rrd' is not an RRD file"
    /\ HasError(sample)

\* The failure of the tool invocation in a returned call: the binary is
\* missing, the timeout was reached, the exit status is not zero, or another
\* exception was raised in the try block (by subprocess.run or by the parser).
FailureOf(t, p) ==
    CASE t.kind = "FileNotFoundError" -> "missing"
      [] t.kind = "TimeoutExpired" -> "timeout"
      [] t.kind = "exit" /\ t.returncode # 0 -> "status"
      [] t.kind = "exit" /\ t.returncode = 0 /\ ~IsRaised(p) -> "none"
      [] OTHER -> "other"

MessageOf(failure) ==
    CASE failure = "missing" -> <<"rrdtool not installed">>
      [] failure = "timeout" -> <<"rrdtool timeout">>
      [] failure = "status" -> <<"rrdtool error reading file">>
      [] failure = "other" -> <<"Unexpected error reading RRD file">>

Failures == {"missing", "timeout", "status", "other"}

\* C11: each of the four failures of the tool invocation (missing binary,
\* timeout, non-zero exit status, any other exception) is reported with its
\* own message, the four messages are pairwise distinct, and no failure is
\* reported with the message of another.
C11_FailureMessagesDistinct ==
    /\ \A f, g \in Failures : f # g => MessageOf(f) # MessageOf(g)
    /\ (pc = "returned" /\ tool.kind # "none"
          /\ FailureOf(tool, parsed) # "none")
         => /\ sample.error = MessageOf(FailureOf(tool, parsed))
            /\ \A g \in Failures \ {FailureOf(tool, parsed)} :
                  sample.error # MessageOf(g)

\* The binary was missing and the call says so.
C11_Witness ==
    /\ pc = "returned"
    /\ tool.kind = "FileNotFoundError"
    /\ sample.error = <<"rrdtool not installed">>

\* C12: whatever the tool does (exit 0 with any text, non-zero exit, missing
\* binary, timeout, another exception, an exception raised by the parser),
\* get_target_data returns a Sample and raises nothing; every failure is a
\* Sample with a non-empty error string, and after exit 0 a Sample of the
\* parser is returned as it is.
C12_AlwaysReturnsSample ==
    (pc = "returned" /\ tool.kind # "none")
        => /\ IsSample(sample)
           /\ ~IsRaised(sample)
           /\ FailureOf(tool, parsed) # "none"
                => (HasError(sample) /\ Len(sample.error) > 0)
           /\ FailureOf(tool, parsed) = "none" => sample = parsed

\* The parser raised on the tool's output and the call returned an error
\* Sample.
C12_Witness ==
    /\ pc = "returned"
    /\ tool.kind = "exit"
    /\ tool.returncode = 0
    /\ IsRaised(parsed)
    /\ IsSample(sample)
    /\ HasError(sample)

\* The message holds the words "not found".
ContainsNotFound(msg) ==
    \E i \in 1..Len(msg) : msg[i] = "RRD file not found: "

\* C13: when the canonical path is inside the data root and no file is there,
\* get_target_data returns an error Sample whose message contains "not
\* found", with null latency and loss, and runs no subprocess.
C13_MissingFileNotFound ==
    LET real_path == realpath(path_join(SMOKEPING_DATA_DIR, rrd_path))
    IN  (pc \in {"running", "returned"}
           /\ IsInside(real_path, realpath(SMOKEPING_DATA_DIR))
           /\ ~exists(real_path))
          => /\ pc = "returned"
             /\ HasError(sample)
             /\ ContainsNotFound(sample.error)
             /\ sample.latency_ms = None
             /\ sample.loss_pct = None
             /\ runs = 0
             /\ tool = NoTool
             /\ tool_arg = NoPath

\* A path under the root, here through the link "in", with no file at it.
C13_Witness ==
    /\ pc = "returned"
    /\ rrd_path = [abs |-> FALSE, comps |-> <<"in", "nofile">>]
    /\ ContainsNotFound(sample.error)
    /\ runs = 0

\* C14: every call of get_target_data returns, whatever rrdtool does: a run
\* that has not ended when the timeout is reached is ended there, never
\* later, and the call then returns the "rrdtool timeout" error Sample; so
\* every request the handler has taken is answered.
C14_CallReturns ==
    /\ [](clock <= TIMEOUT)
    /\ []((pc = "returned" /\ tool.kind = "TimeoutExpired")
            => (tool.timeout = TIMEOUT
                  /\ sample = ErrorSample("rrdtool timeout")))
    /\ (pc = "call") ~> (pc = "returned")
    /\ (request # NoRequest) ~> (pc = "responded")

\* rrdtool hung; the call returned at the timeout.
C14_Witness ==
    /\ pc = "returned"
    /\ tool.kind = "TimeoutExpired"
    /\ tool.timeout = TIMEOUT
    /\ sample.error = <<"rrdtool timeout">>

\* C15: a call of get_target_data runs the tool at most once, and exactly
\* once when the path check and the existence check both pass; after a
\* failure of the run the tool is not run again.
C15_AtMostOneRun ==
    /\ runs <= 1
    /\ pc \in {"running", "returned"}
         => (runs = 1 <=>
               path_check(SMOKEPING_DATA_DIR, rrd_path).verdict = "run")
    /\ (pc = "returned" /\ tool.kind # "none") => runs = 1

\* The run failed with an exception and the call returned without a second
\* run.
C15_Witness ==
    /\ pc = "returned"
    /\ tool.kind = "PermissionError"
    /\ HasError(sample)
    /\ runs = 1

\* The request is a GET of /target/<name> with a non-empty name.
IsTargetRequest ==
    /\ request.command = "GET"
    /\ Len(request.path) = 2
    /\ request.path[1] = "target"
    /\ request.path[2] # ""

\* The request is a GET of "/" or of "/metrics".
IsBulkRequest ==
    /\ request.command = "GET"
    /\ request.path \in {<<>>, <<"metrics">>}

\* C16 as stated: on GET /target/<name>, a name that is not configured is
\* answered 404 with an "error" and the list of available targets and without
\* a fetch, and a configured name is answered 200 whatever the fetch gave.
C16_UnknownNameListsTargets ==
    (pc = "responded" /\ IsTargetRequest)
        => IF has_key(TARGETS, request.path[2])
           THEN /\ response.status = 200
                /\ fetched = <<request.path[2]>>
           ELSE /\ response.status = 404
                /\ "error" \in DOMAIN response.body
                /\ "available" \in DOMAIN response.body
                /\ fetched = <<>>
                /\ runs = 0

\* C16, amended: on GET /target/<name>, a name of word characters and hyphens
\* that is not configured is answered 404 with an "error" and the list of
\* available targets; a name with any other character is answered 404 with
\* the error "Not found" and the list of endpoints; neither makes a fetch; a
\* configured name is answered 200 with the fetched Sample, be it a success
\* or an error Sample.
C16_TargetEndpoint ==
    (pc = "responded" /\ IsTargetRequest)
        => IF has_key(TARGETS, request.path[2])
           THEN /\ response.status = 200
                /\ fetched = <<request.path[2]>>
                /\ IsSample(response.body)
                /\ response.body.target = request.path[2]
           ELSE /\ response.status = 404
                /\ fetched = <<>>
                /\ runs = 0
                /\ IF request.path[2] \in WordSegments
                   THEN /\ DOMAIN response.body = {"error", "available"}
                        /\ response.body.error =
                              <<"Unknown target: ", request.path[2]>>
                        /\ response.body.available = keys(TARGETS)
                   ELSE response.body = NotFoundBody

\* A configured target whose read timed out is answered 200 with the error.
C16_Witness ==
    /\ pc = "responded"
    /\ request = [command |-> "GET", path |-> <<"target", "cloudflare">>]
    /\ response.status = 200
    /\ HasError(response.body)
    /\ response.body.error = <<"rrdtool timeout">>

\* The Samples of a bulk response are those returned by get_target_data, one
\* per step, and a step changes no entry collected before it.
BulkStep ==
    (pc = "returned" /\ request # NoRequest /\ IsBulkRequest)
        => /\ Len(results') = Len(results) + 1
           /\ \A i \in 1..Len(results) : results'[i] = results[i]
           /\ results'[Len(results')] = <<fetched[Len(fetched)], sample>>

\* C17: a GET of "/" or of "/metrics" fetches every configured target once,
\* in order and one at a time, and answers 200 with a "targets" map that has
\* exactly the configured names as keys; each entry is the Sample its own
\* fetch returned, whatever the other fetches returned; the two paths give
\* the same response for the same Samples.
C17_BulkFetchesEveryTarget ==
    /\ []((request # NoRequest /\ IsBulkRequest)
            => /\ Len(fetched) <= Len(TARGETS)
               /\ fetched = SubSeq(keys(TARGETS), 1, Len(fetched))
               /\ keys(results) =
                     SubSeq(keys(TARGETS), 1, Len(results))
               /\ Len(results) \in {Len(fetched) - 1, Len(fetched)})
    /\ []((pc = "responded" /\ IsBulkRequest)
            => /\ response.status = 200
               /\ fetched = keys(TARGETS)
               /\ keys(response.body.targets) = keys(TARGETS)
               /\ {response.body.targets[i][1] :
                        i \in 1..Len(response.body.targets)}
                     = {TARGETS[i][1] : i \in 1..Len(TARGETS)}
               /\ response = send_json(BulkBody(results), 200))
    /\ [][BulkStep]_vars

\* A bulk response on "/metrics" in which the second and third targets have
\* error Samples and the first and fourth have data.
C17_Witness ==
    /\ pc = "responded"
    /\ request = [command |-> "GET", path |-> <<"metrics">>]
    /\ Len(response.body.targets) = 4
    /\ HasTimestamp(response.body.targets[1][2])
    /\ HasError(response.body.targets[2][2])
    /\ HasError(response.body.targets[3][2])
    /\ HasTimestamp(response.body.targets[4][2])

\* The Sample has an error or a number.
HasContent(r) ==
    \/ HasError(r)
    \/ r.latency_ms # None
    \/ r.loss_pct # None

\* C18: every Sample served for a configured target, alone or as an entry of
\* the bulk response, carries an "error" string or at least one non-null
\* number (latency_ms or loss_pct).
C18_ServedSampleHasContent ==
    /\ (pc = "responded" /\ IsTargetRequest
          /\ has_key(TARGETS, request.path[2]))
         => HasContent(response.body)
    /\ (pc = "responded" /\ IsBulkRequest)
         => \A i \in 1..Len(response.body.targets) :
               HasContent(response.body.targets[i][2])

RunsDue ==
    Cardinality({i \in 1..Len(fetched) :
        path_check(SMOKEPING_DATA_DIR, get_item(TARGETS, fetched[i])).verdict
            = "run"})

\* The response follows from the request, the configuration and the Samples
\* fetched for this request.
ResponseIsFresh ==
    pc = "responded"
        => CASE request.command = "OPTIONS" ->
                  response = [status |-> 204, body |-> <<>>] /\ fetched = <<>>
             [] route(request.path) = "health" ->
                  response = send_json(HealthBody, 200) /\ fetched = <<>>
             [] route(request.path) = "bulk" ->
                  /\ response = send_json(BulkBody(results), 200)
                  /\ fetched = keys(TARGETS)
                  /\ runs = RunsDue
                  /\ results[2][2] = NotFoundSample(TARGETS[2][2])
                  /\ results[3][2] = ErrorSample("Invalid path")
             [] route(request.path) = "target"
                  /\ has_key(TARGETS, request.path[2]) ->
                  /\ fetched = <<request.path[2]>>
                  /\ runs = RunsDue
                  /\ response.status = 200
                  /\ IsSample(response.body)
             [] route(request.path) = "target"
                  /\ ~has_key(TARGETS, request.path[2]) ->
                  /\ response = send_json(
                        UnknownTargetBody(request.path[2], TARGETS), 404)
                  /\ fetched = <<>>
             [] OTHER ->
                  response = send_json(NotFoundBody, 404) /\ fetched = <<>>

\* Between two requests nothing of the handled request is left.
NothingKept ==
    pc = "idle"
        => /\ request = NoRequest /\ response = NoResponse
           /\ todo = <<>> /\ fetched = <<>> /\ results = <<>>
           /\ rrd_path = NoRelPath /\ runs = 0 /\ clock = 0
           /\ tool = NoTool /\ tool_arg = NoPath /\ output = NoText
           /\ parsed = NoResult /\ frame = NoLocals /\ sample = NoResult

\* C20: no request changes the target map, the data root or the total probes;
\* nothing of a handled request is left when the next one arrives, so its
\* response follows from the configuration and the tool's output during the
\* request alone; every request for a configured target runs the reads anew.
C20_RequestsAreIndependent ==
    /\ [][UNCHANGED <<TARGETS, SMOKEPING_DATA_DIR, TOTAL_PINGS>>]_vars
    /\ [](TARGETS = DefaultTargets)
    /\ []NothingKept
    /\ []ResponseIsFresh
    /\ [][(pc = "returned" /\ pc' = "responded" /\ IsTargetRequest)
            => response'.body = TargetBody(sample, request.path[2])]_vars

\* The second request, a bulk request, has run the tool anew for the two
\* targets whose files exist.
C20_Witness ==
    /\ pc = "responded"
    /\ served = 1
    /\ IsBulkRequest
    /\ runs = 2
    /\ HasTimestamp(response.body.targets[1][2])

\* What the claim says _parse_int_env returns.
ExpectedInt(value, default, min_val) ==
    IF ~value.set THEN default
    ELSE IF value.value \notin DOMAIN EnvIntLiteral THEN default
    ELSE IF EnvIntLiteral[value.value] < min_val THEN default
    ELSE EnvIntLiteral[value.value]

\* C21: _parse_int_env returns the default when the variable is unset, is
\* not a valid integer or is below min_val, and the parsed integer otherwise;
\* so the total probes, read with default 20 and min_val 1, is at least 1 in
\* every environment and the loss percentage is computed with a divisor that
\* is not zero.
C21_TotalPingsAtLeastOne ==
    /\ \A default \in {20, 8080}, min_val \in {0, 1, 10} :
          parse_int_env(environ, default, min_val)
              = ExpectedInt(environ, default, min_val)
    /\ TOTAL_PINGS = ExpectedInt(environ, 20, 1)
    /\ TOTAL_PINGS >= 1
    /\ (pc = "parsed" /\ HasLossCount(LastToken(output)))
         => (frame.reached /\ frame.loss_pct.k = "num")

\* The environment gives 0, the total is the default 20, and 5 lost pings
\* are 25.0 percent.
C21_Witness ==
    /\ environ = EnvString("0")
    /\ TOTAL_PINGS = 20
    /\ pc = "parsed"
    /\ LastToken(output) = "5"
    /\ parsed.loss_pct = Num(250)

\* The last line with a colon among the lines left after stripping; <<>> when
\* there is none.
LastColonLine(text) ==
    LET lines == split_lines(text)
        I == {i \in 1..Len(lines) : Len(lines[i]) >= 2}
    IN  IF I = {} THEN <<>>
        ELSE lines[CHOOSE i \in I : \A j \in I : j <= i]

\* The format checks the text fails, each taken on its own: 1 fewer than two
\* lines, 2 no line with a colon, 3 the data line has not exactly two parts,
\* 4 its first part is no integer, 5 its second part has fewer than two
\* tokens.
Defects(text) ==
    LET L == LastColonLine(text)
    IN  {d \in 1..5 :
           CASE d = 1 -> Len(split_lines(text)) < 2
             [] d = 2 -> L = <<>>
             [] d = 3 -> L # <<>> /\ Len(L) # 2
             [] d = 4 -> L # <<>> /\ ~(Len(L[1]) = 1
                                         /\ L[1][1] \in DOMAIN IntLiteral)
             [] d = 5 -> L # <<>> /\ Len(L[2]) < 2}

FormatMessage ==
    << <<"Invalid RRD output">>, <<"No data line found">>,
       <<"Malformed data line">>, <<"Invalid timestamp">>,
       <<"Not enough values">> >>

FormatMessages == {FormatMessage[d] : d \in 1..5}

\* C22: the five format checks run in the order too few lines, no line with
\* a colon, not exactly two parts, non-integer timestamp, fewer than two
\* values; a text with several defects is answered with the error of the
\* first check it fails and nothing after that check is computed; a text
\* with no defect gets none of the five errors.
C22_EarliestDefectReported ==
    (pc = "parsed")
        => IF Defects(output) = {}
           THEN /\ frame.reached
                /\ IsSample(parsed) /\ HasError(parsed)
                     => parsed.error \notin FormatMessages
           ELSE LET first == CHOOSE d \in Defects(output) :
                                 \A e \in Defects(output) : d <= e
                IN  /\ parsed = [latency_ms |-> None, loss_pct |-> None,
                                 error |-> FormatMessage[first]]
                    /\ ~frame.reached

\* A line that fails the checks 3, 4 and 5 at once is reported as malformed.
C22_Witness ==
    /\ pc = "parsed"
    /\ Defects(output) = {3, 4, 5}
    /\ parsed.error = <<"Malformed data line">>

\* C23: the data line is the last line with a colon of the stripped text:
\* the result is that of the text made of a header and that line alone,
\* whatever lines without a colon follow it and whatever lines precede it;
\* with no such line the error is "No data line found"; a text of fewer than
\* two lines is refused as "Invalid RRD output", colon or not.
C23_DataLineIsLastColonLine ==
    (pc = "parsed")
        => LET lines == split_lines(output)
               L == LastColonLine(output)
           IN  IF Len(lines) < 2
               THEN parsed = [latency_ms |-> None, loss_pct |-> None,
                              error |-> <<"Invalid RRD output">>]
               ELSE IF L = <<>>
               THEN parsed = [latency_ms |-> None, loss_pct |-> None,
                              error |-> <<"No data line found">>]
               ELSE /\ parsed = parse_rrd_lastupdate(<<Header, L>>)
                    /\ frame = parse_call(<<Header, L>>).locals

\* A good data line, then a line with a bad timestamp, then a line without
\* a colon: the second line is the one used.
C23_Witness ==
    /\ pc = "parsed"
    /\ output = <<DataLine("1735840200", <<"1.23e-02">>, "0"),
                  << <<"not_a_number">>, <<"123456", "1.45e-02", "0">> >>,
                  Header>>
    /\ parsed.error = <<"Invalid timestamp">>

\* Value lists that differ in the uptime token and in the number and the
\* values of the probe tokens, and end with the same token.
OtherValues(last) ==
    { <<"0", last>>,
      <<"123456", "U", "U", "U", "U", last>>,
      <<"U", "1.23e-02", last>>,
      <<"123456", "inf", "abc", "0", "1.45e-02", "-1.5e-02", last>> }

\* C24: loss_pct depends only on the last token of the data line and on the
\* configured total: any other uptime token and any other probe tokens, more
\* or fewer than the total, give the same loss_pct (and the same exception,
\* if the loss token raises one).
C24_LossDependsOnLastToken ==
    (pc = "parsed" /\ StepsPass(output))
        => \A vs \in OtherValues(LastToken(output)) :
              LET other == parse_call(WithValues(output, vs))
              IN  /\ other.locals.loss_pct = frame.loss_pct
                  /\ IsRaised(other.ret) /\ other.ret.raised = "OverflowError"
                       <=> IsRaised(parsed) /\ parsed.raised = "OverflowError"
                  /\ (IsSample(other.ret) /\ IsSample(parsed))
                       => other.ret.loss_pct = parsed.loss_pct

\* One probe token present, twenty configured, five lost: 25.0 percent.
C24_Witness ==
    /\ pc = "parsed"
    /\ TOTAL_PINGS = 20
    /\ StepsPass(output)
    /\ Len(ProbesOf(output)) = 1
    /\ LastToken(output) = "5"
    /\ parsed.loss_pct = Num(250)

\* C25: get_target_data checks containment, then existence, then runs the
\* tool, then parses: a path outside the root at which no file exists gives
\* "Invalid path", not "not found"; the tool is run only when both checks
\* have passed; the parser is called only on the output of a run that exited
\* with status 0, and then it is called.
C25_ChecksInOrder ==
    LET real_path == realpath(path_join(SMOKEPING_DATA_DIR, rrd_path))
        base_path == realpath(SMOKEPING_DATA_DIR)
    IN  /\ (pc \in {"running", "returned"}
              /\ ~IsInside(real_path, base_path) /\ ~exists(real_path))
             => /\ pc = "returned"
                /\ sample = ErrorSample("Invalid path")
                /\ ~ContainsNotFound(sample.error)
        /\ (runs > 0 \/ tool # NoTool \/ tool_arg # NoPath)
             => (IsInside(real_path, base_path) /\ exists(real_path))
        /\ (parsed # NoResult \/ output # NoText)
             => /\ runs = 1
                /\ tool.kind = "exit"
                /\ tool.returncode = 0
        /\ (tool.kind = "exit" /\ tool.returncode = 0)
             => /\ output = tool.stdout
                /\ parsed = parse_rrd_lastupdate(tool.stdout)
        /\ (tool.kind = "exit" /\ tool.returncode # 0)
             => parsed = NoResult

\* A path that leaves the root and names no file.
C25_Witness ==
    /\ pc = "returned"
    /\ rrd_path = [abs |-> FALSE, comps |-> <<"..", "nofile">>]
    /\ ~exists(realpath(path_join(SMOKEPING_DATA_DIR, rrd_path)))
    /\ sample.error = <<"Invalid path">>
    /\ runs = 0

\* The canonical path lies in a sibling of the root whose name begins with
\* the name of the root.
InExtendingSibling(real_path, base_path) ==
    /\ base_path # <<>>
    /\ Len(real_path) >= Len(base_path)
    /\ SubSeq(real_path, 1, Len(base_path) - 1)
          = SubSeq(base_path, 1, Len(base_path) - 1)
    /\ <<real_path[Len(base_path)], base_path[Len(base_path)]>>
          \in NamePrefixes

\* C26: the path given to the tool is the canonical path that passed the
\* containment check, never the joined path as it was before resolution, and
\* it lies inside the canonical root component by component; a canonical
\* path in a sibling directory whose name extends the root's name is refused
\* as "Invalid path".
C26_ToolArgumentInsideRoot ==
    LET real_path == realpath(path_join(SMOKEPING_DATA_DIR, rrd_path))
        base_path == realpath(SMOKEPING_DATA_DIR)
    IN  /\ tool_arg # NoPath
             => /\ tool_arg = real_path
                /\ Len(tool_arg) >= Len(base_path)
                /\ SubSeq(tool_arg, 1, Len(base_path)) = base_path
                /\ ~InExtendingSibling(tool_arg, base_path)
        /\ (pc \in {"running", "returned"}
              /\ InExtendingSibling(real_path, base_path))
             => /\ pc = "returned"
                /\ sample = ErrorSample("Invalid path")
                /\ tool_arg = NoPath
                /\ runs = 0

\* The root is given through a link and the file through another: the tool
\* gets the resolved path, which differs from the joined one.
C26_Witness ==
    /\ pc = "running"
    /\ SMOKEPING_DATA_DIR = <<"d">>
    /\ rrd_path = [abs |-> FALSE, comps |-> <<"in", "cf.rrd">>]
    /\ tool_arg = <<"a", "b", "ext", "cf.rrd">>
    /\ tool_arg # path_join(SMOKEPING_DATA_DIR, rrd_path)

====
